---- MODULE Spec2Model ----
(***************************************************************************)
(* A model of the smart-home registry of src/src/models.py and            *)
(* src/src/device_manager.py: the Device variants, the Hub, the Dwelling  *)
(* and the DeviceManager that owns them.                                   *)
(*                                                                         *)
(* Python objects live in heaps (dev, hubs, dwl) indexed by the place of   *)
(* their construction; the dictionaries of the program (devices,           *)
(* paired_devices, dwellings, installed_hubs) map keys to heap places, so  *)
(* that "the same object seen through two dictionaries" is what it is in   *)
(* the program.  name, address and created_at of devices and dwellings are *)
(* written once by the constructors and read by no operation; they are not *)
(* part of the state.                                                      *)
(***************************************************************************)
EXTENDS Integers, FiniteSets, Sequences, TLC

\* ------------------------------------------------------------------ bounds
\* uuid4() values the run may draw (devices, hub and dwellings together).
MaxIds == 3

\* ------------------------------------------------------- values and inputs
\* Python's None where an identifier is expected (ids start at 1).
None == 0

\* Optional values: None is the empty set, a value v is {v}.
Some(v) == {v}
Absent == {}
Val(o) == CHOOSE v \in o : TRUE

Ids == 1..MaxIds

\* str.lower() on the strings the model passes in.
Lower(s) ==
  CASE s = "ON" -> "on"
    [] s = "Off" -> "off"
    [] s = "OFF" -> "off"
    [] s = "Unlocked" -> "unlocked"
    [] s = "LOCKED" -> "locked"
    [] s = "COOL" -> "cool"
    [] s = "Off." -> "off."
    [] s = "Switch" -> "switch"
    [] s = "DIMMER" -> "dimmer"
    [] s = "Lock" -> "lock"
    [] s = "THERMOSTAT" -> "thermostat"
    [] s = "Bogus" -> "bogus"
    [] OTHER -> s

\* DeviceType: the enum's values.
DeviceType == {"switch", "dimmer", "lock", "thermostat"}

\* The keyword names modify_device may be called with.
KwNames == {"power", "brightness", "state", "pin", "is_armed", "target_temp", "mode"}

\* A keyword bundle: every name is absent or carries one value.
NoKw ==
  [power |-> Absent, brightness |-> Absent, state |-> Absent, pin |-> Absent,
   is_armed |-> Absent, target_temp |-> Absent, mode |-> Absent]

KwKeys(kw) == {k \in KwNames : kw[k] # Absent}

\* Return values: a tag, and the identifier when the tag is "id".
RetTrue == [tag |-> "True", val |-> None]
RetFalse == [tag |-> "False", val |-> None]
RetNone == [tag |-> "None", val |-> None]
RetDict == [tag |-> "dict", val |-> None]
RetTypeError == [tag |-> "TypeError", val |-> None]
RetKeyError == [tag |-> "KeyError", val |-> None]
RetId(i) == [tag |-> "id", val |-> i]
RetBool(b) == IF b THEN RetTrue ELSE RetFalse

\* ------------------------------------------------------------------ state
VARIABLES
  nextId,     \* number of uuid4() values handed out to stored entities
  devices,    \* DeviceManager.devices: device_id -> Device object
  dev,        \* the Device objects
  main_hub,   \* DeviceManager.main_hub: a Hub object or None
  hubs,       \* the Hub objects
  dwellings,  \* DeviceManager.dwellings: dwelling_id -> Dwelling object
  dwl,        \* the Dwelling objects
  op,         \* the operation called last
  arg,        \* its identifier argument (None when it has none)
  ret         \* what it returned

vars == <<nextId, devices, dev, main_hub, hubs, dwellings, dwl, op, arg, ret>>
registry == <<nextId, devices, dev, main_hub, hubs, dwellings, dwl>>

\* ------------------------------------------------------- function helpers
Put(f, k, v) == [x \in (DOMAIN f) \cup {k} |-> IF x = k THEN v ELSE f[x]]
Del(f, k) == [x \in (DOMAIN f) \ {k} |-> f[x]]
Range(f) == {f[x] : x \in DOMAIN f}
EmptyMap == [x \in {} |-> None]

\* ------------------------------------------------------------ models.py
\* Device.__init__: every device starts unpaired, with no hub.
Device(device_id, device_type, st) ==
  [device_id |-> device_id, device_type |-> device_type,
   is_paired |-> FALSE, hub_id |-> None, st |-> st]

\* Switch.__init__
Switch(device_id) == Device(device_id, "switch", [power |-> "off"])

\* Dimmer.__init__
Dimmer(device_id) == Device(device_id, "dimmer", [power |-> "off", brightness |-> 0])

\* Lock.__init__
Lock(device_id, pin) ==
  Device(device_id, "lock", [state |-> "locked", pin |-> pin, is_armed |-> TRUE])

\* Thermostat.__init__
Thermostat(device_id) ==
  Device(device_id, "thermostat",
         [current_temp |-> 72, target_temp |-> 72, mode |-> "heat", is_running |-> FALSE])

\* get_state whose Lock snapshot carries the pin.
GetStateShowsPin(d) ==
  CASE d.device_type = "switch" -> [power |-> d.st.power]
    [] d.device_type = "dimmer" -> [power |-> d.st.power, brightness |-> d.st.brightness]
    [] d.device_type = "lock" ->
         [state |-> d.st.state, is_armed |-> d.st.is_armed, pin |-> d.st.pin]
    [] d.device_type = "thermostat" ->
         [current_temperature |-> d.st.current_temp, target_temperature |-> d.st.target_temp,
          mode |-> d.st.mode, is_running |-> d.st.is_running]

\* get_state of each variant: the snapshot (the Lock's pin is not in it).
GetState(d) ==
  CASE d.device_type = "switch" -> [power |-> d.st.power]
    [] d.device_type = "dimmer" -> [power |-> d.st.power, brightness |-> d.st.brightness]
    [] d.device_type = "lock" -> [state |-> d.st.state, is_armed |-> d.st.is_armed]
    [] d.device_type = "thermostat" ->
         [current_temperature |-> d.st.current_temp, target_temperature |-> d.st.target_temp,
          mode |-> d.st.mode, is_running |-> d.st.is_running]

\* Device.to_dict(): identity, type tag, pairing fields and the snapshot
\* (name and created_at are not modelled).
DeviceToDict(d) ==
  [device_id |-> d.device_id, device_type |-> d.device_type,
   is_paired |-> d.is_paired, hub_id |-> d.hub_id, state |-> GetState(d)]

\* Switch.modify_state comparing power without lower().
SwitchModifyStateCaseSensitive(st, kw) ==
  IF kw.power # Absent /\ Val(kw.power) \in {"on", "off"}
  THEN [st |-> [st EXCEPT !.power = Val(kw.power)], ret |-> TRUE]
  ELSE [st |-> st, ret |-> FALSE]

\* Switch.modify_state(power): the new state and the result.
SwitchModifyState(st, kw) ==
  IF kw.power # Absent /\ Lower(Val(kw.power)) \in {"on", "off"}
  THEN [st |-> [st EXCEPT !.power = Lower(Val(kw.power))], ret |-> TRUE]
  ELSE [st |-> st, ret |-> FALSE]

\* Dimmer.modify_state whose last line returns True.
DimmerModifyStateAlwaysTrue(st, kw) ==
  LET s1 == IF kw.power # Absent /\ Lower(Val(kw.power)) \in {"on", "off"}
            THEN IF Lower(Val(kw.power)) = "off"
                 THEN [st EXCEPT !.power = "off", !.brightness = 0]
                 ELSE [st EXCEPT !.power = "on"]
            ELSE st
  IN IF kw.brightness # Absent /\ 0 <= Val(kw.brightness) /\ Val(kw.brightness) <= 100
     THEN [st |-> [s1 EXCEPT !.brightness = Val(kw.brightness),
                             !.power = IF Val(kw.brightness) > 0 THEN "on" ELSE s1.power],
           ret |-> TRUE]
     ELSE [st |-> s1, ret |-> TRUE]

\* Dimmer.modify_state without the 0..100 range check.
DimmerModifyStateNoRange(st, kw) ==
  LET s1 == IF kw.power # Absent /\ Lower(Val(kw.power)) \in {"on", "off"}
            THEN IF Lower(Val(kw.power)) = "off"
                 THEN [st EXCEPT !.power = "off", !.brightness = 0]
                 ELSE [st EXCEPT !.power = "on"]
            ELSE st
  IN IF kw.brightness # Absent
     THEN [st |-> [s1 EXCEPT !.brightness = Val(kw.brightness),
                             !.power = IF Val(kw.brightness) > 0 THEN "on" ELSE s1.power],
           ret |-> TRUE]
     ELSE [st |-> s1, ret |-> kw.power # Absent]

\* Dimmer.modify_state whose power=off keeps the brightness.
DimmerModifyStateKeepsBrightness(st, kw) ==
  LET s1 == IF kw.power # Absent /\ Lower(Val(kw.power)) \in {"on", "off"}
            THEN [st EXCEPT !.power = Lower(Val(kw.power))]
            ELSE st
  IN IF kw.brightness # Absent /\ 0 <= Val(kw.brightness) /\ Val(kw.brightness) <= 100
     THEN [st |-> [s1 EXCEPT !.brightness = Val(kw.brightness),
                             !.power = IF Val(kw.brightness) > 0 THEN "on" ELSE s1.power],
           ret |-> TRUE]
     ELSE [st |-> s1, ret |-> kw.power # Absent \/ kw.brightness # Absent]

\* Dimmer.modify_state(power, brightness)
DimmerModifyState(st, kw) ==
  LET s1 == IF kw.power # Absent /\ Lower(Val(kw.power)) \in {"on", "off"}
            THEN IF Lower(Val(kw.power)) = "off"
                 THEN [st EXCEPT !.power = "off", !.brightness = 0]
                 ELSE [st EXCEPT !.power = "on"]
            ELSE st
  IN IF kw.brightness # Absent /\ 0 <= Val(kw.brightness) /\ Val(kw.brightness) <= 100
     THEN [st |-> [s1 EXCEPT !.brightness = Val(kw.brightness),
                             !.power = IF Val(kw.brightness) > 0 THEN "on" ELSE s1.power],
           ret |-> TRUE]
     ELSE [st |-> s1, ret |-> kw.power # Absent \/ kw.brightness # Absent]

\* Lock.modify_state that stops at an unrecognized state string.
LockModifyStateStopsOnBadState(st, kw) ==
  IF kw.state # Absent /\ Lower(Val(kw.state)) \notin {"locked", "unlocked"}
  THEN [st |-> st, ret |-> TRUE]
  ELSE LET s1 == IF kw.state # Absent
                 THEN [st EXCEPT !.state = Lower(Val(kw.state))]
                 ELSE st
           s2 == IF kw.pin # Absent THEN [s1 EXCEPT !.pin = Val(kw.pin)] ELSE s1
           s3 == IF kw.is_armed # Absent THEN [s2 EXCEPT !.is_armed = Val(kw.is_armed)] ELSE s2
       IN [st |-> s3, ret |-> kw.state # Absent \/ kw.pin # Absent \/ kw.is_armed # Absent]

\* Lock.modify_state(state, pin, is_armed)
LockModifyState(st, kw) ==
  LET s1 == IF kw.state # Absent /\ Lower(Val(kw.state)) \in {"locked", "unlocked"}
            THEN [st EXCEPT !.state = Lower(Val(kw.state))]
            ELSE st
      s2 == IF kw.pin # Absent THEN [s1 EXCEPT !.pin = Val(kw.pin)] ELSE s1
      s3 == IF kw.is_armed # Absent THEN [s2 EXCEPT !.is_armed = Val(kw.is_armed)] ELSE s2
  IN [st |-> s3, ret |-> kw.state # Absent \/ kw.pin # Absent \/ kw.is_armed # Absent]

\* Lock.unlock_with_pin without the comparison.
LockUnlockWithAnyPin(st, pin) ==
  [st |-> [st EXCEPT !.state = "unlocked"], ret |-> TRUE]

\* Lock.unlock_with_pin(pin)
LockUnlockWithPin(st, pin) ==
  IF pin = st.pin
  THEN [st |-> [st EXCEPT !.state = "unlocked"], ret |-> TRUE]
  ELSE [st |-> st, ret |-> FALSE]

\* Thermostat.modify_state that skips the mode when target_temp is out of
\* range.
ThermostatModifyStateStopsOnBadTemp(st, kw) ==
  IF kw.target_temp # Absent /\ ~(50 <= Val(kw.target_temp) /\ Val(kw.target_temp) <= 90)
  THEN [st |-> st, ret |-> TRUE]
  ELSE LET s1 == IF kw.target_temp # Absent
                 THEN [st EXCEPT !.target_temp = Val(kw.target_temp)]
                 ELSE st
           s2 == IF kw.mode # Absent /\ Lower(Val(kw.mode)) \in {"heat", "cool", "auto", "off"}
                 THEN [s1 EXCEPT !.mode = Lower(Val(kw.mode)),
                                 !.is_running = Lower(Val(kw.mode)) # "off"]
                 ELSE s1
       IN [st |-> s2, ret |-> kw.target_temp # Absent \/ kw.mode # Absent]

\* Thermostat.modify_state(target_temp, mode)
ThermostatModifyState(st, kw) ==
  LET s1 == IF kw.target_temp # Absent /\ 50 <= Val(kw.target_temp) /\ Val(kw.target_temp) <= 90
            THEN [st EXCEPT !.target_temp = Val(kw.target_temp)]
            ELSE st
      s2 == IF kw.mode # Absent /\ Lower(Val(kw.mode)) \in {"heat", "cool", "auto", "off"}
            THEN [s1 EXCEPT !.mode = Lower(Val(kw.mode)),
                            !.is_running = Lower(Val(kw.mode)) # "off"]
            ELSE s1
  IN [st |-> s2, ret |-> kw.target_temp # Absent \/ kw.mode # Absent]

\* Thermostat.update_current_temp(temp)
ThermostatUpdateCurrentTemp(st, temp) == [st EXCEPT !.current_temp = temp]

\* The keyword names each variant's modify_state declares; any other name in
\* the call raises TypeError before the body runs.
Accepted(device_type) ==
  CASE device_type = "switch" -> {"power"}
    [] device_type = "dimmer" -> {"power", "brightness"}
    [] device_type = "lock" -> {"state", "pin", "is_armed"}
    [] device_type = "thermostat" -> {"target_temp", "mode"}

\* device.modify_state(**kwargs), dispatched on the variant.
ModifyState(d, kw) ==
  CASE d.device_type = "switch" -> SwitchModifyState(d.st, kw)
    [] d.device_type = "dimmer" -> DimmerModifyState(d.st, kw)
    [] d.device_type = "lock" -> LockModifyState(d.st, kw)
    [] d.device_type = "thermostat" -> ThermostatModifyState(d.st, kw)

\* Hub.__init__
Hub(hub_id, name) ==
  [hub_id |-> hub_id, name |-> name, paired_devices |-> EmptyMap, dwelling_id |-> None]

\* Hub.pair_device that forgets the device's flag.
HubPairDeviceNoFlag(h, a, hs, ds) ==
  IF ds[a].is_paired
  THEN [hubs |-> hs, dev |-> ds, ret |-> FALSE]
  ELSE [hubs |-> [hs EXCEPT ![h].paired_devices = Put(@, ds[a].device_id, a)],
        dev |-> [ds EXCEPT ![a].hub_id = hs[h].hub_id],
        ret |-> TRUE]

\* Hub.pair_device without the is_paired guard.
HubPairDeviceUnguarded(h, a, hs, ds) ==
  [hubs |-> [hs EXCEPT ![h].paired_devices = Put(@, ds[a].device_id, a)],
   dev |-> [ds EXCEPT ![a].is_paired = TRUE, ![a].hub_id = hs[h].hub_id],
   ret |-> TRUE]

\* Hub.pair_device that files the device under the hub's id.
HubPairDeviceKeyedByHubId(h, a, hs, ds) ==
  IF ds[a].is_paired
  THEN [hubs |-> hs, dev |-> ds, ret |-> FALSE]
  ELSE [hubs |-> [hs EXCEPT ![h].paired_devices = Put(@, hs[h].hub_id, a)],
        dev |-> [ds EXCEPT ![a].is_paired = TRUE, ![a].hub_id = hs[h].hub_id],
        ret |-> TRUE]

\* Hub.pair_device(device) on the hub at h and the device object at a:
\* the heaps after the call and the result.
HubPairDevice(h, a, hs, ds) ==
  IF ds[a].is_paired
  THEN [hubs |-> hs, dev |-> ds, ret |-> FALSE]
  ELSE [hubs |-> [hs EXCEPT ![h].paired_devices = Put(@, ds[a].device_id, a)],
        dev |-> [ds EXCEPT ![a].is_paired = TRUE, ![a].hub_id = hs[h].hub_id],
        ret |-> TRUE]

\* Hub.remove_device that leaves the device's hub_id behind.
HubRemoveDeviceKeepsHubId(h, device_id, hs, ds) ==
  IF device_id \notin DOMAIN hs[h].paired_devices
  THEN [hubs |-> hs, dev |-> ds, ret |-> FALSE]
  ELSE LET a == hs[h].paired_devices[device_id]
       IN [hubs |-> [hs EXCEPT ![h].paired_devices = Del(@, device_id)],
           dev |-> [ds EXCEPT ![a].is_paired = FALSE],
           ret |-> TRUE]

\* Hub.remove_device that leaves the device's flag set.
HubRemoveDeviceKeepsFlag(h, device_id, hs, ds) ==
  IF device_id \notin DOMAIN hs[h].paired_devices
  THEN [hubs |-> hs, dev |-> ds, ret |-> FALSE]
  ELSE LET a == hs[h].paired_devices[device_id]
       IN [hubs |-> [hs EXCEPT ![h].paired_devices = Del(@, device_id)],
           dev |-> [ds EXCEPT ![a].hub_id = None],
           ret |-> TRUE]

\* Hub.remove_device that leaves the map entry behind.
HubRemoveDeviceKeepsEntry(h, device_id, hs, ds) ==
  IF device_id \notin DOMAIN hs[h].paired_devices
  THEN [hubs |-> hs, dev |-> ds, ret |-> FALSE]
  ELSE LET a == hs[h].paired_devices[device_id]
       IN [hubs |-> hs,
           dev |-> [ds EXCEPT ![a].is_paired = FALSE, ![a].hub_id = None],
           ret |-> TRUE]

\* Hub.remove_device(device_id)
HubRemoveDevice(h, device_id, hs, ds) ==
  IF device_id \notin DOMAIN hs[h].paired_devices
  THEN [hubs |-> hs, dev |-> ds, ret |-> FALSE]
  ELSE LET a == hs[h].paired_devices[device_id]
       IN [hubs |-> [hs EXCEPT ![h].paired_devices = Del(@, device_id)],
           dev |-> [ds EXCEPT ![a].is_paired = FALSE, ![a].hub_id = None],
           ret |-> TRUE]

\* Hub.get_device_state(device_id): a state snapshot or None.
HubGetDeviceState(h, device_id, hs) ==
  IF device_id \notin DOMAIN hs[h].paired_devices THEN RetNone ELSE RetDict

\* Hub.list_devices(): the device objects of the pairing map (as the set of
\* their places; the list has one entry per key).
HubListDevices(h, hs) == Range(hs[h].paired_devices)

\* Hub.to_dict(): the fields computed from the hub's state.
HubToDict(h, hs) ==
  [hub_id |-> hs[h].hub_id, dwelling_id |-> hs[h].dwelling_id,
   paired_devices_count |-> Cardinality(DOMAIN hs[h].paired_devices)]

\* Dwelling.__init__
Dwelling(dwelling_id) ==
  [dwelling_id |-> dwelling_id, is_occupied |-> FALSE, installed_hubs |-> EmptyMap]

\* Dwelling.install_hub without the dwelling_id guard.
DwellingInstallHubUnguarded(w, h, ws, hs) ==
  [dwl |-> [ws EXCEPT ![w].installed_hubs = Put(@, hs[h].hub_id, h)],
   hubs |-> [hs EXCEPT ![h].dwelling_id = ws[w].dwelling_id],
   ret |-> TRUE]

\* Dwelling.install_hub that moves a hub installed elsewhere.
DwellingInstallHubMoves(w, h, ws, hs) ==
  LET w0 == IF hs[h].dwelling_id # None
            THEN [ws EXCEPT ![hs[h].dwelling_id].installed_hubs = Del(@, hs[h].hub_id)]
            ELSE ws
  IN [dwl |-> [w0 EXCEPT ![w].installed_hubs = Put(@, hs[h].hub_id, h)],
      hubs |-> [hs EXCEPT ![h].dwelling_id = ws[w].dwelling_id],
      ret |-> TRUE]

\* Dwelling.install_hub(hub) on the dwelling at w and the hub object at h.
DwellingInstallHub(w, h, ws, hs) ==
  IF hs[h].dwelling_id # None
  THEN [dwl |-> ws, hubs |-> hs, ret |-> FALSE]
  ELSE [dwl |-> [ws EXCEPT ![w].installed_hubs = Put(@, hs[h].hub_id, h)],
        hubs |-> [hs EXCEPT ![h].dwelling_id = ws[w].dwelling_id],
        ret |-> TRUE]

\* Dwelling.remove_hub that leaves the hub's back-reference behind.
DwellingRemoveHubKeepsBackRef(w, hub_id, ws, hs) ==
  IF hub_id \notin DOMAIN ws[w].installed_hubs
  THEN [dwl |-> ws, hubs |-> hs, ret |-> FALSE]
  ELSE [dwl |-> [ws EXCEPT ![w].installed_hubs = Del(@, hub_id)],
        hubs |-> hs,
        ret |-> TRUE]

\* Dwelling.remove_hub(hub_id)
DwellingRemoveHub(w, hub_id, ws, hs) ==
  IF hub_id \notin DOMAIN ws[w].installed_hubs
  THEN [dwl |-> ws, hubs |-> hs, ret |-> FALSE]
  ELSE LET h == ws[w].installed_hubs[hub_id]
       IN [dwl |-> [ws EXCEPT ![w].installed_hubs = Del(@, hub_id)],
           hubs |-> [hs EXCEPT ![h].dwelling_id = None],
           ret |-> TRUE]

\* ----------------------------------------------------- device_manager.py
\* What the calls of this specification pass in: a recognised type (in a
\* spelling lower() has to fold) and an unrecognised one, the default pin,
\* two hub names, and a keyword bundle that is empty, names power (which a
\* Switch accepts) or names brightness (which it does not).
TypeInputs == {"Switch", "bogus"}
PinInputs == {Absent}
NameInputs == {"Main Hub", "Test Hub"}
KwInputs ==
  {NoKw,
   [NoKw EXCEPT !.power = Some("ON")],
   [NoKw EXCEPT !.brightness = Some(50)]}

\* DeviceManager.__init__
Init ==
  /\ nextId = 0
  /\ devices = EmptyMap
  /\ dev = EmptyMap
  /\ main_hub = None
  /\ hubs = EmptyMap
  /\ dwellings = EmptyMap
  /\ dwl = EmptyMap
  /\ op = "init"
  /\ arg = None
  /\ ret = RetNone

\* str(uuid.uuid4()): an identifier no entity was given before.
Uuid4 == nextId + 1

\* Device objects no dictionary reaches any more are gone.
Live(ds, regs, hs) ==
  [a \in {x \in DOMAIN ds : x \in Range(regs) \/ \E h \in DOMAIN hs : x \in Range(hs[h].paired_devices)}
     |-> ds[a]]

\* create_device comparing device_type without lower().
create_device_case_sensitive(device_type, pin) ==
  /\ nextId < MaxIds
  /\ op' = "create_device"
  /\ arg' = None
  /\ IF device_type \in DeviceType
     THEN LET device_id == Uuid4
              device == CASE device_type = "switch" -> Switch(device_id)
                          [] device_type = "dimmer" -> Dimmer(device_id)
                          [] device_type = "lock" ->
                               Lock(device_id, IF pin = Absent THEN "0000" ELSE Val(pin))
                          [] device_type = "thermostat" -> Thermostat(device_id)
          IN /\ nextId' = device_id
             /\ dev' = Put(dev, device_id, device)
             /\ devices' = Put(devices, device_id, device_id)
             /\ ret' = RetId(device_id)
             /\ UNCHANGED <<main_hub, hubs, dwellings, dwl>>
     ELSE /\ ret' = RetNone
          /\ UNCHANGED registry

\* DeviceManager.create_device(device_type, name, **kwargs)
create_device(device_type, pin) ==
  /\ nextId < MaxIds
  /\ op' = "create_device"
  /\ arg' = None
  /\ IF Lower(device_type) \in DeviceType
     THEN LET device_id == Uuid4
              device == CASE Lower(device_type) = "switch" -> Switch(device_id)
                          [] Lower(device_type) = "dimmer" -> Dimmer(device_id)
                          [] Lower(device_type) = "lock" ->
                               Lock(device_id, IF pin = Absent THEN "0000" ELSE Val(pin))
                          [] Lower(device_type) = "thermostat" -> Thermostat(device_id)
          IN /\ nextId' = device_id
             /\ dev' = Put(dev, device_id, device)
             /\ devices' = Put(devices, device_id, device_id)
             /\ ret' = RetId(device_id)
             /\ UNCHANGED <<main_hub, hubs, dwellings, dwl>>
     ELSE /\ ret' = RetNone
          /\ UNCHANGED registry

\* delete_device with the is_paired check inverted.
delete_device_inverted(device_id) ==
  /\ op' = "delete_device"
  /\ arg' = device_id
  /\ IF device_id \notin DOMAIN devices
     THEN ret' = RetFalse /\ UNCHANGED registry
     ELSE IF ~dev[devices[device_id]].is_paired
          THEN ret' = RetFalse /\ UNCHANGED registry
          ELSE /\ devices' = Del(devices, device_id)
               /\ dev' = Live(dev, Del(devices, device_id), hubs)
               /\ ret' = RetTrue
               /\ UNCHANGED <<nextId, main_hub, hubs, dwellings, dwl>>

\* delete_device without the is_paired check.
delete_device_unchecked(device_id) ==
  /\ op' = "delete_device"
  /\ arg' = device_id
  /\ IF device_id \notin DOMAIN devices
     THEN ret' = RetFalse /\ UNCHANGED registry
     ELSE /\ devices' = Del(devices, device_id)
          /\ dev' = Live(dev, Del(devices, device_id), hubs)
          /\ ret' = RetTrue
          /\ UNCHANGED <<nextId, main_hub, hubs, dwellings, dwl>>

\* DeviceManager.delete_device(device_id)
delete_device(device_id) ==
  /\ op' = "delete_device"
  /\ arg' = device_id
  /\ IF device_id \notin DOMAIN devices
     THEN ret' = RetFalse /\ UNCHANGED registry
     ELSE IF dev[devices[device_id]].is_paired
          THEN ret' = RetFalse /\ UNCHANGED registry
          ELSE /\ devices' = Del(devices, device_id)
               /\ dev' = Live(dev, Del(devices, device_id), hubs)
               /\ ret' = RetTrue
               /\ UNCHANGED <<nextId, main_hub, hubs, dwellings, dwl>>

\* DeviceManager.get_device_info(device_id)
get_device_info(device_id) ==
  /\ op' = "get_device_info"
  /\ arg' = device_id
  /\ ret' = IF device_id \notin DOMAIN devices THEN RetNone ELSE RetDict
  /\ UNCHANGED registry

\* modify_device that also clears the device's pairing flag.
modify_device_unpairs(device_id, kw) ==
  /\ op' = "modify_device"
  /\ arg' = device_id
  /\ IF device_id \notin DOMAIN devices
     THEN ret' = RetFalse /\ UNCHANGED registry
     ELSE LET a == devices[device_id] IN
          IF ~(KwKeys(kw) \subseteq Accepted(dev[a].device_type))
          THEN ret' = RetTypeError /\ UNCHANGED registry
          ELSE LET r == ModifyState(dev[a], kw)
               IN /\ dev' = [dev EXCEPT ![a].st = r.st, ![a].is_paired = FALSE]
                  /\ ret' = RetBool(r.ret)
                  /\ UNCHANGED <<nextId, devices, main_hub, hubs, dwellings, dwl>>

\* DeviceManager.modify_device(device_id, **kwargs)
modify_device(device_id, kw) ==
  /\ op' = "modify_device"
  /\ arg' = device_id
  /\ IF device_id \notin DOMAIN devices
     THEN ret' = RetFalse /\ UNCHANGED registry
     ELSE LET a == devices[device_id] IN
          IF ~(KwKeys(kw) \subseteq Accepted(dev[a].device_type))
          THEN ret' = RetTypeError /\ UNCHANGED registry
          ELSE LET r == ModifyState(dev[a], kw)
               IN /\ dev' = [dev EXCEPT ![a].st = r.st]
                  /\ ret' = RetBool(r.ret)
                  /\ UNCHANGED <<nextId, devices, main_hub, hubs, dwellings, dwl>>

\* DeviceManager.list_devices(): the registry's device objects.
list_devices == Range(devices)

\* create_hub without the early return: every call makes a new hub.
create_hub_always(name) ==
  /\ op' = "create_hub"
  /\ arg' = None
  /\ nextId < MaxIds
  /\ LET hub_id == Uuid4
     IN /\ nextId' = hub_id
        /\ hubs' = Put(hubs, hub_id, Hub(hub_id, name))
        /\ main_hub' = hub_id
        /\ ret' = RetId(hub_id)
  /\ UNCHANGED <<devices, dev, dwellings, dwl>>

\* DeviceManager.create_hub(name)
create_hub(name) ==
  /\ op' = "create_hub"
  /\ arg' = None
  /\ IF main_hub # None
     THEN ret' = RetId(hubs[main_hub].hub_id) /\ UNCHANGED registry
     ELSE /\ nextId < MaxIds
          /\ LET hub_id == Uuid4
             IN /\ nextId' = hub_id
                /\ hubs' = Put(hubs, hub_id, Hub(hub_id, name))
                /\ main_hub' = hub_id
                /\ ret' = RetId(hub_id)
          /\ UNCHANGED <<devices, dev, dwellings, dwl>>

\* DeviceManager.get_hub_id()
get_hub_id == IF main_hub # None THEN hubs[main_hub].hub_id ELSE None

\* DeviceManager.pair_device(device_id)
pair_device(device_id) ==
  /\ op' = "pair_device"
  /\ arg' = device_id
  /\ IF main_hub = None \/ device_id \notin DOMAIN devices
     THEN ret' = RetFalse /\ UNCHANGED registry
     ELSE LET r == HubPairDevice(main_hub, devices[device_id], hubs, dev)
          IN /\ hubs' = r.hubs
             /\ dev' = r.dev
             /\ ret' = RetBool(r.ret)
             /\ UNCHANGED <<nextId, devices, main_hub, dwellings, dwl>>

\* DeviceManager.get_device_state(device_id)
get_device_state(device_id) ==
  /\ op' = "get_device_state"
  /\ arg' = device_id
  /\ ret' = IF main_hub = None THEN RetNone ELSE HubGetDeviceState(main_hub, device_id, hubs)
  /\ UNCHANGED registry

\* DeviceManager.list_hub_devices()
list_hub_devices == IF main_hub = None THEN {} ELSE HubListDevices(main_hub, hubs)

\* DeviceManager.remove_device(device_id)
remove_device(device_id) ==
  /\ op' = "remove_device"
  /\ arg' = device_id
  /\ IF main_hub = None
     THEN ret' = RetFalse /\ UNCHANGED registry
     ELSE LET r == HubRemoveDevice(main_hub, device_id, hubs, dev)
          IN /\ hubs' = r.hubs
             /\ dev' = Live(r.dev, devices, r.hubs)
             /\ ret' = RetBool(r.ret)
             /\ UNCHANGED <<nextId, devices, main_hub, dwellings, dwl>>

\* DeviceManager.create_dwelling(name, address)
create_dwelling ==
  /\ nextId < MaxIds
  /\ op' = "create_dwelling"
  /\ arg' = None
  /\ LET dwelling_id == Uuid4
     IN /\ nextId' = dwelling_id
        /\ dwl' = Put(dwl, dwelling_id, Dwelling(dwelling_id))
        /\ dwellings' = Put(dwellings, dwelling_id, dwelling_id)
        /\ ret' = RetId(dwelling_id)
  /\ UNCHANGED <<devices, dev, main_hub, hubs>>

\* set_dwelling_occupied without the membership check: the lookup of an
\* unknown dwelling raises KeyError.
set_dwelling_occupied_unchecked(dwelling_id, occupied) ==
  /\ op' = "set_dwelling_occupied"
  /\ arg' = dwelling_id
  /\ IF dwelling_id \notin DOMAIN dwellings
     THEN ret' = RetKeyError /\ UNCHANGED registry
     ELSE /\ dwl' = [dwl EXCEPT ![dwellings[dwelling_id]].is_occupied = occupied]
          /\ ret' = RetTrue
          /\ UNCHANGED <<nextId, devices, dev, main_hub, hubs, dwellings>>

\* DeviceManager.set_dwelling_occupied(dwelling_id, occupied)
set_dwelling_occupied(dwelling_id, occupied) ==
  /\ op' = "set_dwelling_occupied"
  /\ arg' = dwelling_id
  /\ IF dwelling_id \notin DOMAIN dwellings
     THEN ret' = RetFalse /\ UNCHANGED registry
     ELSE /\ dwl' = [dwl EXCEPT ![dwellings[dwelling_id]].is_occupied = occupied]
          /\ ret' = RetTrue
          /\ UNCHANGED <<nextId, devices, dev, main_hub, hubs, dwellings>>

\* DeviceManager.install_hub(dwelling_id)
install_hub(dwelling_id) ==
  /\ op' = "install_hub"
  /\ arg' = dwelling_id
  /\ IF dwelling_id \notin DOMAIN dwellings \/ main_hub = None
     THEN ret' = RetFalse /\ UNCHANGED registry
     ELSE LET r == DwellingInstallHub(dwellings[dwelling_id], main_hub, dwl, hubs)
          IN /\ dwl' = r.dwl
             /\ hubs' = r.hubs
             /\ ret' = RetBool(r.ret)
             /\ UNCHANGED <<nextId, devices, dev, main_hub, dwellings>>

\* DeviceManager.get_dwelling_info(dwelling_id)
get_dwelling_info(dwelling_id) ==
  /\ op' = "get_dwelling_info"
  /\ arg' = dwelling_id
  /\ ret' = IF dwelling_id \notin DOMAIN dwellings THEN RetNone ELSE RetDict
  /\ UNCHANGED registry

\* DeviceManager.get_paired_devices()
get_paired_devices == {a \in Range(devices) : dev[a].is_paired}

\* DeviceManager.get_unpaired_devices()
get_unpaired_devices == {a \in Range(devices) : ~dev[a].is_paired}

\* DeviceManager.get_hub_info(): the hub's dictionary (a set, empty for None).
get_hub_info == IF main_hub = None THEN Absent ELSE Some(HubToDict(main_hub, hubs))

\* Any call of the DeviceManager's interface.
Next ==
  \/ \E t \in TypeInputs, p \in PinInputs : create_device(t, p)
  \/ \E i \in Ids : delete_device(i)
  \/ \E i \in Ids : get_device_info(i)
  \/ \E i \in Ids, kw \in KwInputs : modify_device(i, kw)
  \/ \E n \in NameInputs : create_hub(n)
  \/ \E i \in Ids : pair_device(i)
  \/ \E i \in Ids : get_device_state(i)
  \/ \E i \in Ids : remove_device(i)
  \/ create_dwelling
  \/ \E i \in Ids, b \in BOOLEAN : set_dwelling_occupied(i, b)
  \/ \E i \in Ids : install_hub(i)
  \/ \E i \in Ids : get_dwelling_info(i)

Spec == Init /\ [][Next]_vars

\* A caller that holds a Dwelling of the registry calls its
\* remove_hub(hub_id), which the DeviceManager does not wrap.
remove_hub(dwelling_id, hub_id) ==
  /\ dwelling_id \in DOMAIN dwellings
  /\ op' = "remove_hub"
  /\ arg' = dwelling_id
  /\ LET r == DwellingRemoveHub(dwellings[dwelling_id], hub_id, dwl, hubs)
     IN /\ dwl' = r.dwl
        /\ hubs' = r.hubs
        /\ ret' = RetBool(r.ret)
  /\ UNCHANGED <<nextId, devices, dev, main_hub, dwellings>>

\* The DeviceManager's interface together with Dwelling.remove_hub.
NextDwelling ==
  \/ Next
  \/ \E w \in Ids, h \in Ids : remove_hub(w, h)

SpecDwelling == Init /\ [][NextDwelling]_vars

\* ------------------------------------------------- one device, every variant
\* What the calls of the device specification pass in: every type (in
\* spellings lower() has to fold) and an unrecognised one; the default pin
\* or a pin; for each variant the bundles over absent, valid, differently
\* spelled, invalid and boundary values of the fields it declares.
DeviceTypeInputs == {"switch", "DIMMER", "Lock", "thermostat", "Bogus"}
DevicePinInputs == {Absent, Some("5678")}
SwitchKw ==
  {[NoKw EXCEPT !.power = p] : p \in {Absent, Some("on"), Some("OFF"), Some("dim")}}
DimmerKw ==
  {[NoKw EXCEPT !.power = p, !.brightness = b] :
     p \in {Absent, Some("ON"), Some("off"), Some("dim")},
     b \in {Absent, Some(-1), Some(0), Some(50), Some(100), Some(150)}}
LockKw ==
  {[NoKw EXCEPT !.state = s, !.pin = p, !.is_armed = a] :
     s \in {Absent, Some("Unlocked"), Some("locked"), Some("ajar")},
     p \in {Absent, Some("1234")},
     a \in {Absent, Some(TRUE), Some(FALSE)}}
ThermostatKw ==
  {[NoKw EXCEPT !.target_temp = t, !.mode = m] :
     t \in {Absent, Some(49), Some(50), Some(68), Some(90), Some(91)},
     m \in {Absent, Some("heat"), Some("COOL"), Some("auto"), Some("off"), Some("eco")}}
DeviceKwInputs == SwitchKw \cup DimmerKw \cup LockKw \cup ThermostatKw
PinCandidates == {"0000", "1234", "5678", "9999"}
TempInputs == {65, 72}

\* A caller that holds a Lock of the registry calls its unlock_with_pin(pin).
unlock_with_pin(device_id, pin) ==
  /\ device_id \in DOMAIN devices
  /\ dev[devices[device_id]].device_type = "lock"
  /\ op' = "unlock_with_pin"
  /\ arg' = device_id
  /\ LET r == LockUnlockWithPin(dev[devices[device_id]].st, pin)
     IN /\ dev' = [dev EXCEPT ![devices[device_id]].st = r.st]
        /\ ret' = RetBool(r.ret)
  /\ UNCHANGED <<nextId, devices, main_hub, hubs, dwellings, dwl>>

\* A caller that holds a Thermostat of the registry calls its
\* update_current_temp(temp).
update_current_temp(device_id, temp) ==
  /\ device_id \in DOMAIN devices
  /\ dev[devices[device_id]].device_type = "thermostat"
  /\ op' = "update_current_temp"
  /\ arg' = device_id
  /\ dev' = [dev EXCEPT ![devices[device_id]].st =
                          ThermostatUpdateCurrentTemp(@, temp)]
  /\ ret' = RetNone
  /\ UNCHANGED <<nextId, devices, main_hub, hubs, dwellings, dwl>>

\* One device of any variant is created in an empty registry and then
\* modified, unlocked and updated with every input above.
NextDevice ==
  \/ /\ devices = EmptyMap
     /\ \E t \in DeviceTypeInputs, p \in DevicePinInputs : create_device(t, p)
  \/ \E i \in Ids, kw \in DeviceKwInputs : modify_device(i, kw)
  \/ \E i \in Ids, p \in PinCandidates : unlock_with_pin(i, p)
  \/ \E i \in Ids, t \in TempInputs : update_current_temp(i, t)

SpecDevice == Init /\ [][NextDevice]_vars

\* ------------------------------------------------------- a pair of locks
\* Two locks that receive the same calls: the pins they are created with,
\* which may differ.
LockPairPins == (DevicePinInputs \cup {Some("9999")}) \X (DevicePinInputs \cup {Some("9999")})

\* The two locks of the registry, by their identifiers.
LockA == CHOOSE i \in DOMAIN devices : \A j \in DOMAIN devices : i <= j
LockB == CHOOSE i \in DOMAIN devices : \A j \in DOMAIN devices : j <= i

\* create_device("lock", pin=...) called twice, once with each pin.
create_lock_pair(pins) ==
  /\ devices = EmptyMap
  /\ nextId + 2 <= MaxIds
  /\ op' = "create_device"
  /\ arg' = None
  /\ LET id1 == Uuid4
         id2 == Uuid4 + 1
         pin1 == IF pins[1] = Absent THEN "0000" ELSE Val(pins[1])
         pin2 == IF pins[2] = Absent THEN "0000" ELSE Val(pins[2])
     IN /\ nextId' = id2
        /\ dev' = Put(Put(dev, id1, Lock(id1, pin1)), id2, Lock(id2, pin2))
        /\ devices' = Put(Put(devices, id1, id1), id2, id2)
        /\ ret' = RetId(id2)
  /\ UNCHANGED <<main_hub, hubs, dwellings, dwl>>

\* modify_device with the same arguments on the first lock, then on the
\* second.
modify_lock_pair(kw) ==
  /\ devices # EmptyMap
  /\ op' = "modify_device"
  /\ arg' = LockB
  /\ LET a == devices[LockA]
         b == devices[LockB]
     IN /\ dev' = [x \in DOMAIN dev |->
                    IF x \in {a, b}
                    THEN [dev[x] EXCEPT !.st = LockModifyState(dev[x].st, kw).st]
                    ELSE dev[x]]
        /\ ret' = RetBool(LockModifyState(dev[b].st, kw).ret)
  /\ UNCHANGED <<nextId, devices, main_hub, hubs, dwellings, dwl>>

\* unlock_with_pin with the same candidate on the first lock, then on the
\* second.
unlock_lock_pair(pin) ==
  /\ devices # EmptyMap
  /\ op' = "unlock_with_pin"
  /\ arg' = LockB
  /\ LET a == devices[LockA]
         b == devices[LockB]
     IN /\ dev' = [x \in DOMAIN dev |->
                    IF x \in {a, b}
                    THEN [dev[x] EXCEPT !.st = LockUnlockWithPin(dev[x].st, pin).st]
                    ELSE dev[x]]
        /\ ret' = RetBool(LockUnlockWithPin(dev[b].st, pin).ret)
  /\ UNCHANGED <<nextId, devices, main_hub, hubs, dwellings, dwl>>

NextLockPair ==
  \/ \E pins \in LockPairPins : create_lock_pair(pins)
  \/ \E kw \in LockKw : modify_lock_pair(kw)
  \/ \E p \in PinCandidates : unlock_lock_pair(p)

SpecLockPair == Init /\ [][NextLockPair]_vars

\* ------------------------------------------------------------- the claims
\* The Device objects of the registry.
RegistryDevices == Range(devices)

\* C1: every device of the registry has is_paired exactly when its hub_id
\* is not None, whatever DeviceManager operations ran.
C1_PairedIffHubId ==
  \A a \in RegistryDevices : dev[a].is_paired = (dev[a].hub_id # None)

\* A device was just unpaired while another one stays paired.
C1_Witness ==
  /\ op = "remove_device" /\ ret = RetTrue
  /\ arg \in DOMAIN devices /\ ~dev[devices[arg]].is_paired
  /\ \E a \in RegistryDevices : dev[a].is_paired /\ dev[a].hub_id # None

\* C2: every device in a hub's paired_devices is paired, points back to
\* that hub, and is stored under its own device_id.
C2_HubMapConsistent ==
  \A h \in DOMAIN hubs : \A k \in DOMAIN hubs[h].paired_devices :
    LET a == hubs[h].paired_devices[k]
    IN /\ a \in DOMAIN dev
       /\ dev[a].is_paired
       /\ dev[a].hub_id = hubs[h].hub_id
       /\ dev[a].device_id = k

\* Two devices sit in the hub's map after a successful pair_device.
C2_Witness ==
  /\ op = "pair_device" /\ ret = RetTrue
  /\ main_hub # None
  /\ Cardinality(DOMAIN hubs[main_hub].paired_devices) = 2

\* Whether the registry device at a is an entry of main_hub.paired_devices.
InMainHub(a) ==
  /\ main_hub # None
  /\ dev[a].device_id \in DOMAIN hubs[main_hub].paired_devices
  /\ hubs[main_hub].paired_devices[dev[a].device_id] = a

\* C3: between operations, a registry device has its flag set exactly when
\* it is an entry of main_hub.paired_devices.
C3_FlagIffInMap ==
  \A a \in RegistryDevices : dev[a].is_paired <=> InMainHub(a)

\* One device is paired and in the map, another is unpaired and not in it,
\* after a pairing and after a removal.
C3_Witness ==
  /\ op \in {"pair_device", "remove_device"} /\ ret = RetTrue
  /\ \E a \in RegistryDevices : dev[a].is_paired /\ InMainHub(a)
  /\ \E a \in RegistryDevices : ~dev[a].is_paired /\ ~InMainHub(a)

\* C4: pair_device on a device that is already paired returns false and
\* leaves the hub's paired_devices, its size and the device's is_paired and
\* hub_id as they were.
C4_RepairRejected ==
  [][(/\ op' = "pair_device"
      /\ main_hub # None
      /\ arg' \in DOMAIN devices
      /\ dev[devices[arg']].is_paired)
     => /\ ret' = RetFalse
        /\ main_hub' = main_hub
        /\ hubs'[main_hub].paired_devices = hubs[main_hub].paired_devices
        /\ Cardinality(DOMAIN hubs'[main_hub].paired_devices)
             = Cardinality(DOMAIN hubs[main_hub].paired_devices)
        /\ devices' = devices
        /\ dev'[devices[arg']].is_paired = dev[devices[arg']].is_paired
        /\ dev'[devices[arg']].hub_id = dev[devices[arg']].hub_id]_vars

\* pair_device was called on a paired device and refused.
C4_Witness ==
  /\ op = "pair_device" /\ ret = RetFalse
  /\ arg \in DOMAIN devices /\ dev[devices[arg]].is_paired
  /\ InMainHub(devices[arg])

\* C5 as stated: for every id, delete_device returns false exactly when the
\* device is currently paired, and otherwise returns true and removes it.
C5_Original ==
  [][(op' = "delete_device")
     => /\ (ret' = RetFalse)
             <=> (arg' \in DOMAIN devices /\ dev[devices[arg']].is_paired)
        /\ (ret' # RetFalse) => (ret' = RetTrue /\ arg' \notin DOMAIN devices')
        /\ (ret' = RetFalse) => (devices' = devices /\ dev' = dev)]_vars

\* C5 amended: delete_device(id) returns false exactly when the id is
\* unknown or the device is currently paired; otherwise it returns true and
\* removes the device; a false result leaves the registry's devices
\* unchanged.
C5_Amended ==
  [][(op' = "delete_device")
     => /\ (ret' = RetFalse)
             <=> (arg' \notin DOMAIN devices \/ dev[devices[arg']].is_paired)
        /\ (ret' # RetFalse)
             => /\ ret' = RetTrue
                /\ arg' \notin DOMAIN devices'
                /\ devices' = Del(devices, arg')
        /\ (ret' = RetFalse) => (devices' = devices /\ dev' = dev)]_vars

\* delete_device was refused for an id the registry does not hold, while
\* the registry holds a paired device.
C5_Witness ==
  /\ op = "delete_device" /\ ret = RetFalse
  /\ arg \notin DOMAIN devices
  /\ \E a \in RegistryDevices : dev[a].is_paired

\* len(list_hub_devices())
HubLen == Cardinality(list_hub_devices)

\* C6: a successful pair_device lengthens list_hub_devices() by one;
\* remove_device of a paired device returns true, shortens it by one and
\* leaves the device unpaired in the registry; delete_device of an unpaired
\* registry device returns true; delete_device of a paired one returns false.
C6_PairRemoveDelete ==
  [][/\ (op' = "pair_device" /\ ret' = RetTrue)
          => HubLen' = HubLen + 1
     /\ (/\ op' = "remove_device"
         /\ arg' \in DOMAIN devices /\ dev[devices[arg']].is_paired)
          => /\ ret' = RetTrue
             /\ HubLen' = HubLen - 1
             /\ arg' \in DOMAIN devices'
             /\ ~dev'[devices'[arg']].is_paired
     /\ (/\ op' = "delete_device"
         /\ arg' \in DOMAIN devices /\ ~dev[devices[arg']].is_paired)
          => ret' = RetTrue /\ arg' \notin DOMAIN devices'
     /\ (/\ op' = "delete_device"
         /\ arg' \in DOMAIN devices /\ dev[devices[arg']].is_paired)
          => ret' = RetFalse /\ devices' = devices]_vars

\* The only paired device was removed from the hub: the list is empty again
\* and the device is in the registry, unpaired.
C6_Witness ==
  /\ op = "remove_device" /\ ret = RetTrue
  /\ arg \in DOMAIN devices /\ ~dev[devices[arg]].is_paired
  /\ main_hub # None /\ HubLen = 0

\* C7: create_hub returns the id of the hub it made or found; once a hub
\* exists, create_hub changes neither main_hub nor the hub (name,
\* paired_devices, dwelling_id); no step changes which hub main_hub is or
\* its hub_id; there is never more than one Hub.
C7_CreateHubIdempotent ==
  [][/\ (op' = "create_hub" /\ main_hub # None)
          => /\ ret' = RetId(hubs[main_hub].hub_id)
             /\ main_hub' = main_hub
             /\ hubs' = hubs
     /\ (op' = "create_hub" /\ main_hub = None)
          => /\ main_hub' # None
             /\ ret' = RetId(hubs'[main_hub'].hub_id)
     /\ (main_hub # None)
          => /\ main_hub' = main_hub
             /\ hubs'[main_hub'].hub_id = hubs[main_hub].hub_id
     /\ Cardinality(DOMAIN hubs') <= 1]_vars

\* create_hub was called on a hub that already has a paired device and is
\* installed: a later call, which returned the hub's id.
C7_Witness ==
  /\ op = "create_hub"
  /\ main_hub # None
  /\ ret = RetId(hubs[main_hub].hub_id)
  /\ hubs[main_hub].paired_devices # EmptyMap
  /\ hubs[main_hub].dwelling_id # None

\* The dwellings of the registry that hold the hub at h.
Holders(h) ==
  {w \in Range(dwellings) : hubs[h].hub_id \in DOMAIN dwl[w].installed_hubs}

\* At most one dwelling holds the hub; hub.dwelling_id is set exactly when
\* one does, and names it.
C8_Inv ==
  main_hub # None =>
    /\ Cardinality(Holders(main_hub)) <= 1
    /\ (hubs[main_hub].dwelling_id # None) <=> (Holders(main_hub) # {})
    /\ \A w \in Holders(main_hub) :
         /\ hubs[main_hub].dwelling_id = dwl[w].dwelling_id
         /\ dwl[w].installed_hubs[hubs[main_hub].hub_id] = main_hub

\* C8: the hub is installed in at most one dwelling (C8_Inv in every state),
\* and install_hub on any dwelling returns false and changes nothing while
\* hub.dwelling_id is set.
C8_AtMostOneDwelling ==
  /\ []C8_Inv
  /\ [][(/\ op' = "install_hub"
          /\ main_hub # None
          /\ hubs[main_hub].dwelling_id # None)
         => ret' = RetFalse /\ UNCHANGED registry]_vars

\* install_hub was refused on a second dwelling of the registry while
\* another one holds the hub.
C8_Witness ==
  /\ op = "install_hub" /\ ret = RetFalse
  /\ main_hub # None
  /\ arg \in DOMAIN dwellings
  /\ hubs[main_hub].dwelling_id # None
  /\ hubs[main_hub].dwelling_id # arg
  /\ Holders(main_hub) # {}

\* C9: install_hub on a dwelling of the registry succeeds exactly when
\* hub.dwelling_id is None (so a repeated install fails and an install after
\* remove_hub succeeds, on any dwelling); remove_hub on the holding dwelling
\* returns true, clears hub.dwelling_id and the mapping entry; remove_hub on
\* a dwelling that does not hold the hub returns false and changes nothing.
C9_DwellingRoundTrip ==
  [][/\ (op' = "install_hub" /\ main_hub # None /\ arg' \in DOMAIN dwellings)
          => /\ (ret' = RetTrue) <=> (hubs[main_hub].dwelling_id = None)
             /\ ret' \in {RetTrue, RetFalse}
             /\ (ret' = RetTrue)
                  => /\ hubs'[main_hub].dwelling_id = arg'
                     /\ hubs[main_hub].hub_id
                          \in DOMAIN dwl'[dwellings[arg']].installed_hubs
     /\ (op' = "remove_hub")
          => \A h \in Ids :
               remove_hub(arg', h)
               => IF h \in DOMAIN dwl[dwellings[arg']].installed_hubs
                  THEN /\ ret' = RetTrue
                       /\ hubs'[dwl[dwellings[arg']].installed_hubs[h]].dwelling_id = None
                       /\ dwl'[dwellings[arg']].installed_hubs = EmptyMap
                  ELSE ret' = RetFalse /\ UNCHANGED registry]_vars

\* remove_hub succeeded on the dwelling that held the hub: the hub is free
\* again, with a second dwelling in the registry.
C9_Witness ==
  /\ op = "remove_hub" /\ ret = RetTrue
  /\ main_hub # None
  /\ hubs[main_hub].dwelling_id = None
  /\ Holders(main_hub) = {}
  /\ Cardinality(DOMAIN dwellings) = 2

\* C10: an operation that names an unknown device or dwelling, or needs a
\* hub when there is none, returns False or None and leaves the registry
\* (devices, hub, dwellings, pairing, installation) unchanged.
C10_NotFound ==
  [][LET unknownDevice == arg' \notin DOMAIN devices
         unknownDwelling == arg' \notin DOMAIN dwellings
         noHub == main_hub = None
     IN (\/ op' \in {"pair_device", "remove_device", "get_device_state"}
              /\ (unknownDevice \/ noHub)
         \/ op' \in {"delete_device", "modify_device", "get_device_info"}
              /\ unknownDevice
         \/ op' = "install_hub" /\ (unknownDwelling \/ noHub)
         \/ op' \in {"set_dwelling_occupied", "get_dwelling_info"}
              /\ unknownDwelling)
        => /\ UNCHANGED registry
           /\ ret' = (IF op' \in {"get_device_state", "get_device_info",
                                   "get_dwelling_info"}
                      THEN RetNone ELSE RetFalse)]_vars

\* An operation was refused for an id the registry does not know although a
\* hub, a device and a pairing exist.
C10_Witness ==
  /\ op \in {"pair_device", "remove_device", "delete_device", "modify_device"}
  /\ ret = RetFalse
  /\ arg \notin DOMAIN devices
  /\ main_hub # None
  /\ hubs[main_hub].paired_devices # EmptyMap

\* C11: no DeviceManager operation raises: whatever the device and the
\* option bundle, also one naming an option the variant does not accept,
\* the call ends with a boolean, an identifier, a snapshot or None.
C11_NoRaise == ret.tag \in {"True", "False", "None", "dict", "id"}

\* The variant state of the registry device with identifier i.
St(i) == dev[devices[i]].st
TypeOf(i) == dev[devices[i]].device_type

C13_UnlockWithPin ==
  [][(op' = "unlock_with_pin")
     => \A p \in PinCandidates :
          unlock_with_pin(arg', p)
          => IF p = St(arg').pin
             THEN /\ ret' = RetTrue
                  /\ dev'[devices[arg']].st.state = "unlocked"
                  /\ dev'[devices[arg']].st.pin = St(arg').pin
                  /\ dev'[devices[arg']].st.is_armed = St(arg').is_armed
             ELSE /\ ret' = RetFalse
                  /\ dev'[devices[arg']].st = St(arg')]_vars

\* A lock whose pin was replaced through modify_state was unlocked with the
\* new pin.
C13_Witness ==
  /\ op = "unlock_with_pin" /\ ret = RetTrue
  /\ arg \in DOMAIN devices
  /\ St(arg).pin = "1234" /\ St(arg).state = "unlocked" /\ ~St(arg).is_armed

\* The old pin was refused on a lock whose pin was replaced; the lock stays
\* locked.
C13_WitnessRefused ==
  /\ op = "unlock_with_pin" /\ ret = RetFalse
  /\ arg \in DOMAIN devices
  /\ St(arg).pin = "1234" /\ St(arg).state = "locked"

\* The variant state of the device with identifier i after the step.
StNext(i) == dev'[devices[i]].st

\* The step is a modify_device call on a registry device of the given type.
ModifyOf(device_type) ==
  /\ op' = "modify_device"
  /\ arg' \in DOMAIN devices
  /\ TypeOf(arg') = device_type

PowerGiven(kw, v) == kw.power # Absent /\ Lower(Val(kw.power)) = v
PowerValid(kw) == PowerGiven(kw, "on") \/ PowerGiven(kw, "off")
BrightnessIn(kw, lo, hi) ==
  kw.brightness # Absent /\ lo <= Val(kw.brightness) /\ Val(kw.brightness) <= hi
BrightnessOutOfRange(kw) == kw.brightness # Absent /\ ~BrightnessIn(kw, 0, 100)

\* C14: Dimmer.modify_state returns true iff brightness was given within
\* 0..100 or power was given; a call with only an out-of-range brightness
\* returns false.
C14_DimmerReturn ==
  [][ModifyOf("dimmer")
     => \A kw \in DimmerKw :
          modify_device(arg', kw)
          => (ret' = RetTrue <=> (BrightnessIn(kw, 0, 100) \/ kw.power # Absent))]_vars

\* C15 as stated: Switch.modify_state returns false only if power was not
\* given; an invalid power value leaves the state alone and does not return
\* false; on/off in any letter case set the power and return true.
C15_Original ==
  [][ModifyOf("switch")
     => \A kw \in SwitchKw :
          modify_device(arg', kw)
          => /\ ret' = RetFalse => kw.power = Absent
             /\ PowerValid(kw) => ret' = RetTrue /\ StNext(arg').power = Lower(Val(kw.power))
             /\ ~PowerValid(kw) => StNext(arg') = St(arg')]_vars

\* C15 amended: Switch.modify_state returns true iff power was given as on/off
\* in any letter case, and then sets the power; a call without power or with
\* an invalid power value leaves the state alone and returns false.
C15_Amended ==
  [][ModifyOf("switch")
     => \A kw \in SwitchKw :
          modify_device(arg', kw)
          => /\ ret' = RetTrue <=> PowerValid(kw)
             /\ ret' \in {RetTrue, RetFalse}
             /\ PowerValid(kw) => StNext(arg').power = Lower(Val(kw.power))
             /\ ~PowerValid(kw) => StNext(arg') = St(arg')]_vars

\* A switch that is on answered false to a modify_device call.
C15_Witness ==
  /\ op = "modify_device" /\ ret = RetFalse
  /\ arg \in DOMAIN devices
  /\ TypeOf(arg) = "switch" /\ St(arg).power = "on"

\* The clauses of C16 about an in-range brightness and about power alone.
DimmerFieldEffects(i, kw) ==
  /\ BrightnessIn(kw, 1, 100)
     => StNext(i).brightness = Val(kw.brightness) /\ StNext(i).power = "on"
  /\ (PowerGiven(kw, "off") /\ kw.brightness = Absent) => StNext(i).brightness = 0
  /\ (PowerGiven(kw, "on") /\ kw.brightness = Absent)
     => StNext(i).brightness = St(i).brightness

\* C16 as stated: a brightness outside 0..100 leaves brightness at its prior
\* value; a brightness in 1..100 is stored and leaves power on, also with
\* power=off in the same call; power=off without brightness sets brightness
\* to 0; power=on alone leaves brightness unchanged.
C16_Original ==
  [][ModifyOf("dimmer")
     => \A kw \in DimmerKw :
          modify_device(arg', kw)
          => /\ BrightnessOutOfRange(kw) => StNext(arg').brightness = St(arg').brightness
             /\ DimmerFieldEffects(arg', kw)]_vars

\* C16 amended: a brightness outside 0..100 is ignored, so brightness keeps
\* its prior value unless the same call supplies power=off, which sets it to
\* 0; the other clauses are as stated.
C16_Amended ==
  [][ModifyOf("dimmer")
     => \A kw \in DimmerKw :
          modify_device(arg', kw)
          => /\ BrightnessOutOfRange(kw)
                => StNext(arg').brightness =
                     IF PowerGiven(kw, "off") THEN 0 ELSE St(arg').brightness
             /\ DimmerFieldEffects(arg', kw)]_vars

\* A dimmer holds brightness 100 with power on after a modify_device call
\* that returned true.
C16_Witness ==
  /\ op = "modify_device" /\ ret = RetTrue
  /\ arg \in DOMAIN devices
  /\ TypeOf(arg) = "dimmer"
  /\ St(arg).brightness = 100 /\ St(arg).power = "on"

TempInRange(kw) ==
  kw.target_temp # Absent /\ 50 <= Val(kw.target_temp) /\ Val(kw.target_temp) <= 90
ModeValid(kw) ==
  kw.mode # Absent /\ Lower(Val(kw.mode)) \in {"heat", "cool", "auto", "off"}

\* C17: Thermostat.modify_state returns true iff target_temp or mode was
\* given; a target_temp in 50..90 is stored, any other leaves the target
\* unchanged while a valid mode of the same call is still applied; a valid
\* mode sets is_running to (mode # off); current_temperature never changes.
C17_ThermostatModify ==
  [][ModifyOf("thermostat")
     => \A kw \in ThermostatKw :
          modify_device(arg', kw)
          => /\ ret' = RetBool(kw.target_temp # Absent \/ kw.mode # Absent)
             /\ StNext(arg').target_temp =
                  IF TempInRange(kw) THEN Val(kw.target_temp) ELSE St(arg').target_temp
             /\ ModeValid(kw)
                => /\ StNext(arg').mode = Lower(Val(kw.mode))
                   /\ StNext(arg').is_running = (Lower(Val(kw.mode)) # "off")
             /\ StNext(arg').current_temp = St(arg').current_temp]_vars

\* A thermostat whose temperature was updated to 65 was switched off and
\* given the target 90 by modify_device calls; the temperature is still 65.
C17_Witness ==
  /\ op = "modify_device" /\ ret = RetTrue
  /\ arg \in DOMAIN devices
  /\ TypeOf(arg) = "thermostat"
  /\ St(arg).target_temp = 90 /\ St(arg).mode = "off" /\ ~St(arg).is_running
  /\ St(arg).current_temp = 65

StateValid(kw) ==
  kw.state # Absent /\ Lower(Val(kw.state)) \in {"locked", "unlocked"}

\* C18: Lock.modify_state returns true iff state, pin or is_armed was given,
\* and applies each given field independently: a recognized state is set
\* with no pin comparison, an unrecognized one leaves the state alone, and a
\* pin or is_armed of the same call is applied either way.
C18_LockModify ==
  [][ModifyOf("lock")
     => \A kw \in LockKw :
          modify_device(arg', kw)
          => /\ ret' = RetBool(kw.state # Absent \/ kw.pin # Absent \/ kw.is_armed # Absent)
             /\ StNext(arg').state =
                  IF StateValid(kw) THEN Lower(Val(kw.state)) ELSE St(arg').state
             /\ StNext(arg').pin =
                  IF kw.pin # Absent THEN Val(kw.pin) ELSE St(arg').pin
             /\ StNext(arg').is_armed =
                  IF kw.is_armed # Absent THEN Val(kw.is_armed) ELSE St(arg').is_armed]_vars

\* A lock created with pin 5678 is unlocked and armed after a modify_device
\* call, its pin untouched.
C18_Witness ==
  /\ op = "modify_device" /\ ret = RetTrue
  /\ arg \in DOMAIN devices
  /\ TypeOf(arg) = "lock"
  /\ St(arg).state = "unlocked" /\ St(arg).pin = "5678" /\ St(arg).is_armed

\* Every identifier some entity of the registry carries.
RegistryIds == DOMAIN devices \cup DOMAIN hubs \cup DOMAIN dwellings

\* C19: create_device with a type string that is not switch, dimmer, lock or
\* thermostat in any letter case returns None and leaves the registry
\* unchanged; with a recognized type it adds exactly one device, under an id
\* no entity of the registry has, unpaired and without hub_id, and changes
\* no existing device, hub or dwelling.
C19_CreateDevice ==
  [][(op' = "create_device")
     => \A t \in TypeInputs, p \in PinInputs :
          create_device(t, p)
          => IF Lower(t) \notin {"switch", "dimmer", "lock", "thermostat"}
             THEN /\ ret' = RetNone
                  /\ UNCHANGED <<devices, dev, main_hub, hubs, dwellings, dwl>>
             ELSE /\ ret'.tag = "id"
                  /\ ret'.val \notin RegistryIds
                  /\ DOMAIN devices' = DOMAIN devices \cup {ret'.val}
                  /\ dev'[devices'[ret'.val]].device_id = ret'.val
                  /\ dev'[devices'[ret'.val]].device_type = Lower(t)
                  /\ ~dev'[devices'[ret'.val]].is_paired
                  /\ dev'[devices'[ret'.val]].hub_id = None
                  /\ \A i \in DOMAIN devices :
                       devices'[i] = devices[i] /\ dev'[devices'[i]] = dev[devices[i]]
                  /\ UNCHANGED <<main_hub, hubs, dwellings, dwl>>]_vars

\* A third entity, a switch, was created next to a paired device and the
\* hub that holds it.
C19_Witness ==
  /\ op = "create_device" /\ ret.tag = "id"
  /\ ret.val \in DOMAIN devices
  /\ ~dev[devices[ret.val]].is_paired
  /\ main_hub # None
  /\ \E i \in DOMAIN hubs[main_hub].paired_devices : i # ret.val

\* create_device was refused next to a device and a hub.
C19_WitnessRefused ==
  /\ op = "create_device" /\ ret = RetNone
  /\ devices # EmptyMap /\ main_hub # None

\* The hub's map holds only devices of the registry, each under its own key.
NoDanglingPairing ==
  main_hub # None
  => \A k \in DOMAIN hubs[main_hub].paired_devices :
       /\ k \in DOMAIN devices
       /\ devices[k] = hubs[main_hub].paired_devices[k]

\* An identifier that was handed out and is no device of the registry is no
\* device and no key of the hub's map after the step.
DeletedStaysOut ==
  \A i \in 1..nextId :
    i \notin DOMAIN devices
    => /\ i \notin DOMAIN devices'
       /\ main_hub' # None => i \notin DOMAIN hubs'[main_hub'].paired_devices

\* C20: no dangling pairing: every device id in main_hub.paired_devices is a
\* key of the registry's devices map, in every reachable state, and an id
\* that was deleted is never a device or paired again.
C20_NoDanglingPairing == []NoDanglingPairing /\ [][DeletedStaysOut]_vars

\* pair_device was refused for the id of a deleted device while the hub
\* holds another device.
C20_Witness ==
  /\ op = "pair_device" /\ ret = RetFalse
  /\ arg \in 1..nextId /\ arg \notin RegistryIds
  /\ main_hub # None
  /\ hubs[main_hub].paired_devices # EmptyMap


\* The device ids of the dictionaries a query returns.
DeviceIds(objs) == {dev[a].device_id : a \in objs}

\* C21: the ids get_paired_devices() returns are the ids list_hub_devices()
\* returns, as many as the hub's paired_devices_count; get_paired_devices()
\* and get_unpaired_devices() are disjoint and together make list_devices().
C21_ViewsAgree ==
  /\ DeviceIds(get_paired_devices) = DeviceIds(list_hub_devices)
  /\ \A info \in get_hub_info :
       Cardinality(DeviceIds(get_paired_devices)) = info.paired_devices_count
  /\ DeviceIds(get_paired_devices) \cap DeviceIds(get_unpaired_devices) = {}
  /\ DeviceIds(get_paired_devices) \cup DeviceIds(get_unpaired_devices)
       = DeviceIds(list_devices)

\* The hub lists one device and the registry holds another, unpaired, after
\* a device was unpaired.
C21_Witness ==
  /\ op = "remove_device" /\ ret = RetTrue
  /\ get_hub_info # Absent
  /\ Cardinality(DeviceIds(list_hub_devices)) = 1
  /\ DeviceIds(get_unpaired_devices) # {}


\* The main hub is installed in a dwelling.
Installed == main_hub # None /\ hubs[main_hub].dwelling_id # None

\* C22: with the DeviceManager's operations alone, installation is permanent:
\* an install_hub that returns true leaves the hub installed, and from then
\* on the hub and its dwelling_id stay, every dwelling's installed_hubs stay
\* (a dwelling created later has none), and every install_hub returns false.
C22_InstallPermanent ==
  [][/\ (op' = "install_hub" /\ ret' = RetTrue)
        => Installed' /\ hubs'[main_hub'].dwelling_id = arg'
     /\ Installed
        => /\ main_hub' = main_hub
           /\ hubs'[main_hub'].dwelling_id = hubs[main_hub].dwelling_id
           /\ \A w \in DOMAIN dwellings' :
                dwl'[dwellings'[w]].installed_hubs =
                  IF w \in DOMAIN dwellings
                  THEN dwl[dwellings[w]].installed_hubs
                  ELSE EmptyMap
           /\ DOMAIN dwellings \subseteq DOMAIN dwellings'
           /\ op' = "install_hub" => ret' = RetFalse]_vars

\* install_hub was refused on a second dwelling while the hub is installed
\* in the first.
C22_Witness ==
  /\ op = "install_hub" /\ ret = RetFalse
  /\ Installed
  /\ arg \in DOMAIN dwellings
  /\ hubs[main_hub].dwelling_id # arg
  /\ DOMAIN dwl[dwellings[arg]].installed_hubs = {}


\* Every registry device other than the one the step names is as it was.
OthersUntouched ==
  \A j \in DOMAIN devices :
    j # arg' => /\ j \in DOMAIN devices'
                /\ devices'[j] = devices[j]
                /\ dev'[devices'[j]] = dev[devices[j]]

\* C23: modify_device changes no device's is_paired or hub_id and no hub's
\* paired_devices; pair_device, remove_device and delete_device change no
\* device's state snapshot; each of the four leaves every device but the
\* one it names untouched.
C23_PairingStateIndependent ==
  [][/\ (op' = "modify_device")
        => /\ devices' = devices
           /\ \A j \in DOMAIN devices :
                /\ dev'[devices[j]].is_paired = dev[devices[j]].is_paired
                /\ dev'[devices[j]].hub_id = dev[devices[j]].hub_id
           /\ main_hub' = main_hub
           /\ DOMAIN hubs' = DOMAIN hubs
           /\ \A h \in DOMAIN hubs : hubs'[h].paired_devices = hubs[h].paired_devices
           /\ OthersUntouched
     /\ (op' \in {"pair_device", "remove_device", "delete_device"})
        => /\ \A j \in DOMAIN devices \cap DOMAIN devices' :
                GetState(dev'[devices'[j]]) = GetState(dev[devices[j]])
           /\ OthersUntouched]_vars

\* A switch that was turned on is still on after it was paired, next to
\* another device of the registry.
C23_Witness ==
  /\ op = "pair_device" /\ ret = RetTrue
  /\ arg \in DOMAIN devices
  /\ dev[devices[arg]].is_paired
  /\ GetState(dev[devices[arg]]) = [power |-> "on"]
  /\ \E j \in DOMAIN devices : j # arg

\* A paired switch was turned on and is still paired.
C23_WitnessModify ==
  /\ op = "modify_device" /\ ret = RetTrue
  /\ arg \in DOMAIN devices
  /\ dev[devices[arg]].is_paired /\ dev[devices[arg]].hub_id = main_hub
  /\ GetState(dev[devices[arg]]) = [power |-> "on"]


\* The registry devices of one variant.
DevicesOf(device_type) == {a \in RegistryDevices : dev[a].device_type = device_type}

\* C24: whatever modify_state calls a Dimmer received, its brightness lies
\* in 0..100 and a brightness above 0 goes with power on (power off goes
\* with brightness 0).
C24_DimmerInvariant ==
  \A a \in DevicesOf("dimmer") :
    /\ dev[a].st.brightness \in 0..100
    /\ dev[a].st.brightness > 0 => dev[a].st.power = "on"
    /\ dev[a].st.power = "off" => dev[a].st.brightness = 0

\* A dimmer is on at brightness 50 after a modify_device call that returned
\* true.
C24_Witness ==
  /\ op = "modify_device" /\ ret = RetTrue
  /\ arg \in DOMAIN devices
  /\ TypeOf(arg) = "dimmer"
  /\ St(arg).power = "on" /\ St(arg).brightness = 50

\* A dimmer is on with brightness 0: brightness=0 does not switch it off.
C24_WitnessOnAtZero ==
  /\ op = "modify_device"
  /\ arg \in DOMAIN devices
  /\ TypeOf(arg) = "dimmer"
  /\ St(arg).power = "on" /\ St(arg).brightness = 0

\* C25: every Thermostat, from its creation on and after any modify_state
\* calls, has target_temperature in 50..90, a mode among heat, cool, auto
\* and off, and is_running true exactly when the mode is not off.
C25_ThermostatInvariant ==
  \A a \in DevicesOf("thermostat") :
    /\ 50 <= dev[a].st.target_temp /\ dev[a].st.target_temp <= 90
    /\ dev[a].st.mode \in {"heat", "cool", "auto", "off"}
    /\ dev[a].st.is_running = (dev[a].st.mode # "off")


\* All registry devices show the same get_state() and the same state entry
\* of to_dict().
SnapshotsAgree ==
  \A i, j \in DOMAIN devices :
    /\ GetState(dev[devices[i]]) = GetState(dev[devices[j]])
    /\ DeviceToDict(dev[devices[i]]).state = DeviceToDict(dev[devices[j]]).state

\* The candidate equals the stored pin of one lock of the pair and not of
\* the other.
Distinguishes(pin) == (pin = St(LockA).pin) # (pin = St(LockB).pin)

\* C26: two locks that receive the same calls and differ in their stored
\* pin only show the same get_state() and to_dict() state (state and
\* is_armed, never the pin) at creation and after every call, except an
\* unlock_with_pin whose candidate matches one pin and not the other.
C26_PinNotObservable ==
  [][SnapshotsAgree
     => \/ SnapshotsAgree'
        \/ /\ op' = "unlock_with_pin"
           /\ \E p \in PinCandidates : unlock_lock_pair(p) /\ Distinguishes(p)]_vars

\* Two disarmed locks with different pins both refused a candidate and show
\* the same snapshot.
C26_Witness ==
  /\ op = "unlock_with_pin" /\ ret = RetFalse
  /\ devices # EmptyMap
  /\ St(LockA).pin # St(LockB).pin
  /\ ~St(LockA).is_armed /\ St(LockA).state = "locked"
  /\ SnapshotsAgree

\* A candidate that matched one pin only left one lock unlocked and the
\* other locked.
C26_WitnessDiverged ==
  /\ op = "unlock_with_pin"
  /\ devices # EmptyMap
  /\ ~SnapshotsAgree

====
